---- MODULE Spec2Model ----
(***************************************************************************)
(* Model of src/src/data/collectors/ergast_collector.py: ErgastCollector.  *)
(*                                                                         *)
(* One collector instance (rate_limit, one session with a Retry policy)    *)
(* is used by callers that invoke _make_request directly or through the    *)
(* facade methods.  A call is followed step by step: the parameters are    *)
(* merged, the session issues HTTP attempts, the retry policy decides      *)
(* after each response, raise_for_status screens the final response, the   *)
(* rate-limit sleep runs, the body is parsed and the facade's extraction   *)
(* builds its result.                                                      *)
(*                                                                         *)
(* Strings of the JSON payload are sequences of one-character strings, so  *)
(* that int(), str() and the f-string formatting are computed and not      *)
(* assumed.  Time is a discrete clock advanced by Tick; a sleeping caller  *)
(* resumes once the clock has reached its wake-up time.  The backoff sleep *)
(* between retries is not given a duration: any amount of time, also none, *)
(* may pass between two attempts.                                          *)
(***************************************************************************)
EXTENDS Integers, Sequences, FiniteSets, TLC

VARIABLES
    now,         \* the wall clock
    rate_limit,  \* self.rate_limit
    pc,          \* per caller: position in the call
    op,          \* per caller: the method invoked
    args,        \* per caller: the facade arguments
    given,       \* per caller: TRUE when the caller passed a params map
    orig,        \* per caller: the caller's map as it was when the call began
    params,      \* per caller: the caller's own map object
    sent,        \* per caller: the map handed to session.get
    total,       \* per caller: Retry.total left for this call
    attempts,    \* per caller: HTTP attempts made in this call
    retried,     \* per caller: responses of this call answered by a retry
    last,        \* per caller: the response to the latest attempt
    body,        \* per caller: body of the response that passed
    wake,        \* per caller: wake-up time of time.sleep
    sleeps,      \* per caller: time.sleep(rate_limit) calls in this call
    err,         \* per caller: the exception the call raised
    result,      \* per caller: what the call returned
    okAt,        \* per caller: when the latest response that passed was
                 \* received, in this call or in the call before it when
                 \* that call returned normally; else None
    reqAt,       \* per caller: when the latest HTTP attempt of the call in
                 \* flight was issued; None before the first and once the
                 \* call has its final response
    short        \* per caller: TRUE while the attempt in flight was issued
                 \* less than rate_limit after the attempt before it

vars == <<now, rate_limit, pc, op, args, given, orig, params, sent, total,
          attempts, retried, last, body, wake, sleeps, err, result, okAt,
          reqAt, short>>

----------------------------------------------------------------------------
\* Bounds of the model

MaxTime == 3
MaxRate == 2
MaxItems == 3
FacadeItems == 2

----------------------------------------------------------------------------
\* Values

\* Python's None, and a key that a dict does not hold
None == 0 - 1

Callers == {"A", "B"}

\* the one caller of the sequential specifications
Sequential == {"A"}

----------------------------------------------------------------------------
\* Query parameters: a dict over the keys below; None marks a missing key

ParamKeys == {"limit", "offset"}
ParamValues == {30}
Dicts == [ParamKeys -> ParamValues \cup {None}]
EmptyDict == [k \in ParamKeys |-> None]

\* the literal in params.setdefault("limit", 1000)
DefaultLimit == 1000

\* a variant that overwrites the caller's value
setdefault_overwrite(d, k, v) == [d EXCEPT ![k] = v]

\* dict.setdefault(k, v): stores v only when d has no key k
setdefault(d, k, v) == IF d[k] = None THEN [d EXCEPT ![k] = v] ELSE d

----------------------------------------------------------------------------
\* The session's retry policy and the screening of the final response

\* Retry(total=3, ...)
RetryTotal == 3

\* Retry(status_forcelist=[429, 500, 502, 503, 504])
status_forcelist == {429, 500, 502, 503, 504}

\* urllib3's Retry.RETRY_AFTER_STATUS_CODES; respect_retry_after_header is
\* left at its default, True
RETRY_AFTER_STATUS_CODES == {413, 429, 503}

\* what the server may answer to one attempt: a status with or without a
\* Retry-After header, or no answer at all (connection error, timeout=30)
Statuses == {200, 304, 404, 413, 429, 503}
Responses ==
    [kind : {"status"}, status : Statuses, retry_after : {FALSE}]
    \cup [kind : {"status"}, status : {413}, retry_after : {TRUE}]
    \cup [kind : {"error"}, status : {None}, retry_after : {FALSE}]
NoResponse == [kind |-> "none", status |-> None, retry_after |-> FALSE]

\* a variant that retries on any error status
is_retry_any(t, status, has_retry_after) == status >= 400

\* a variant without status_forcelist
is_retry_never(t, status, has_retry_after) == FALSE

\* Retry.is_retry for a GET
is_retry(t, status, has_retry_after) ==
    \/ status \in status_forcelist
    \/ t # 0 /\ has_retry_after /\ status \in RETRY_AFTER_STATUS_CODES

\* a variant that never consumes the budget
increment_keep(t) == t

\* Retry.increment: one retry less
increment(t) == t - 1

\* Retry.is_exhausted
is_exhausted(t) == t < 0

\* a variant that lets every status pass
raise_for_status_never(status) == FALSE

\* Response.raise_for_status raises HTTPError for 4xx and 5xx only
raise_for_status(status) == 400 <= status /\ status < 600

----------------------------------------------------------------------------
\* Strings of the payload: sequences of characters

DigitChars == <<"0", "1", "2", "3", "4", "5", "6", "7", "8", "9">>
Digits == {DigitChars[i] : i \in 1..10}
DigitVal(ch) == (CHOOSE i \in 1..10 : DigitChars[i] = ch) - 1

IsDigits(s) == Len(s) > 0 /\ \A i \in 1..Len(s) : s[i] \in Digits

RECURSIVE DigitsVal(_)
DigitsVal(s) ==
    IF s = <<>> THEN 0
    ELSE 10 * DigitsVal(SubSeq(s, 1, Len(s) - 1)) + DigitVal(s[Len(s)])

\* int(s) raises ValueError unless s is a decimal literal, signed or not
\* (the payload strings of this model hold no blanks and no underscores)
int_parses(s) ==
    \/ IsDigits(s)
    \/ Len(s) > 1 /\ s[1] \in {"-", "+"} /\ IsDigits(Tail(s))

\* int(s) for a string that parses
int_of(s) ==
    IF IsDigits(s) THEN DigitsVal(s)
    ELSE IF s[1] = "-" THEN 0 - DigitsVal(Tail(s))
    ELSE DigitsVal(Tail(s))

RECURSIVE NatStr(_)
NatStr(n) ==
    IF n < 10 THEN <<DigitChars[n + 1]>>
    ELSE NatStr(n \div 10) \o <<DigitChars[(n % 10) + 1]>>

\* str(n), the text an f-string gives an integer
str_of(n) == IF n < 0 THEN <<"-">> \o NatStr(0 - n) ELSE NatStr(n)

SeqsUpTo(S, n) == UNION {[1..k -> S] : k \in 0..n}

\* str.isdigit(): not empty and nothing but digits
isdigit(s) == IsDigits(s)

\* a decimal literal with one decimal place, signed or not
HasDecimal(s) ==
    /\ Len(s) >= 3
    /\ s[Len(s) - 1] = "."
    /\ s[Len(s)] \in Digits
    /\ int_parses(SubSeq(s, 1, Len(s) - 2))

\* float(s) raises ValueError unless s is a number (the payload strings of
\* this model are written without exponent and with one decimal at most)
float_parses(s) == int_parses(s) \/ HasDecimal(s)

\* float(s) for a string that parses, counted in tenths
float_of(s) ==
    IF int_parses(s) THEN 10 * int_of(s)
    ELSE LET whole == SubSeq(s, 1, Len(s) - 2)
             tenth == DigitVal(s[Len(s)])
         IN  IF whole[1] = "-" THEN 10 * int_of(whole) - tenth
             ELSE 10 * int_of(whole) + tenth

\* key in d
Has(d, k) == k \in DOMAIN d

\* the truth value Python gives an optional number: None and 0 are false
Truthy(x) == x # None /\ x # 0

----------------------------------------------------------------------------
\* Payloads

\* the season strings a response may hold: plain, with a leading zero, and
\* one that is no number
YearStrs == {<<"5">>, <<"0", "5">>, <<"6">>, <<"R">>}

\* the season and round strings of a race item
RaceSeasonStrs == {<<"5">>, <<"0", "5">>}
RoundStrs == {<<"1">>, <<"0", "1">>, <<"2">>, <<"R">>}

SeasonItems == [season : YearStrs]
RaceItems == [season : RaceSeasonStrs, round : RoundStrs]

SeasonsTree(items) == [MRData |-> [SeasonTable |-> [Seasons |-> items]]]
RacesTree(items) == [MRData |-> [RaceTable |-> [Races |-> items]]]

\* documents that lack MRData, the table, or the list in the table
Malformed(table) ==
    {[message |-> "x"],
     [MRData |-> [series |-> "f1"]],
     [MRData |-> (table :> [series |-> "f1"])]}

\* a race item without its round, and one with a url and a time
RaceItemNoRound == [season |-> <<"5">>]
RaceItemFull ==
    [season |-> <<"5">>, round |-> <<"2">>, url |-> "http://r", time |-> "13:00:00Z"]

\* Items of the Results list of a race (the Constructor block and the status
\* are copied like the Driver block and are left out)
DriverA == [driverId |-> "a", givenName |-> "Ann", familyName |-> "One"]
DriverB == [driverId |-> "b", givenName |-> "Bob", familyName |-> "Two"]

ResultBase ==
    [position |-> <<"1">>, Driver |-> DriverA, grid |-> <<"2">>,
     laps |-> <<"3">>, points |-> <<"2", "5">>]

\* a retired driver: position "R", no grid slot, half a point, a race time
ResultRetired ==
    [ResultBase EXCEPT !.position = <<"R">>, !.Driver = DriverB,
                       !.grid = <<>>, !.points = <<"0", ".", "5">>]
    @@ ("Time" :> [millis |-> "5400000", time |-> "1:30:00"])

\* signed numbers, a grid slot 0, and a FastestLap block without rank or Time
ResultSigned ==
    [ResultBase EXCEPT !.position = <<"-", "1">>, !.grid = <<"0">>,
                       !.points = <<"-", "1">>]
    @@ ("FastestLap" :> [lap |-> "3"])

\* a Time block without "time", and a complete FastestLap block
ResultFastest ==
    [ResultBase EXCEPT !.Driver = DriverB]
    @@ ("Time" :> [millis |-> "5400000"])
    @@ ("FastestLap" :> [rank |-> <<"1">>, Time |-> [time |-> "1:20"]])

\* laps that are no number, and no laps at all
ResultBadLaps == [ResultBase EXCEPT !.laps = <<"R">>]
ResultNoLaps ==
    [position |-> <<"1">>, Driver |-> DriverA, grid |-> <<"2">>,
     points |-> <<"2", "5">>]

ResultItems == {ResultBase, ResultRetired, ResultSigned, ResultFastest}

\* the race blocks of a results or qualifying response
RaceHeadX == [season |-> <<"5">>, round |-> <<"1">>, raceName |-> "X"]
RaceHeadY == [season |-> <<"5">>, round |-> <<"2">>, raceName |-> "Y"]
RaceHeadBadRound == [RaceHeadX EXCEPT !.round = <<"R">>]
RaceHeads == {RaceHeadX, RaceHeadY}

ResultsBlock(head, results) == head @@ [Results |-> results]

\* the Results lists of the blocks of a response with several races
PlainResults == {<<>>, <<ResultBase, ResultRetired>>, <<ResultRetired, ResultBase>>}

\* one race with up to n results of any kind; up to n races with plain
\* results; documents with a part missing or a number that is none
ResultsTrees(n) ==
    {RacesTree(<<ResultsBlock(RaceHeadX, l)>>) : l \in SeqsUpTo(ResultItems, n)}
    \cup {RacesTree(bs) :
            bs \in SeqsUpTo({ResultsBlock(h, l) : h \in RaceHeads, l \in PlainResults}, n)}
    \cup Malformed("RaceTable")
    \cup {RacesTree(<<RaceHeadX>>),
          RacesTree(<<ResultsBlock(RaceHeadBadRound, <<ResultBase>>)>>),
          RacesTree(<<ResultsBlock(RaceHeadX, <<ResultBase, ResultNoLaps>>)>>),
          RacesTree(<<ResultsBlock(RaceHeadX, <<ResultRetired, ResultBadLaps>>)>>)}

\* Items of the QualifyingResults list of a race (the Constructor block is
\* copied like the Driver block and is left out)
QualBase ==
    [position |-> <<"1">>, Driver |-> DriverA,
     Q1 |-> "1:21", Q2 |-> "1:20", Q3 |-> "1:19"]
QualQ1Only == [position |-> <<"2">>, Driver |-> DriverB, Q1 |-> "1:22"]
QualNoTime == [position |-> <<"-", "1">>, Driver |-> DriverA]
QualBadPosition == [position |-> <<"R">>, Driver |-> DriverB, Q1 |-> "1:23"]
QualNoPosition == [Driver |-> DriverA]

QualItems == {QualBase, QualQ1Only, QualNoTime, QualBadPosition, QualNoPosition}

QualifyingBlock(head, quals) == head @@ [QualifyingResults |-> quals]

\* one race with up to n qualifying results, two races, and documents with
\* a part missing or a round that is no number
QualifyingTrees(n) ==
    {RacesTree(<<QualifyingBlock(RaceHeadX, l)>>) : l \in SeqsUpTo(QualItems, n)}
    \cup {RacesTree(<<QualifyingBlock(RaceHeadX, <<QualBase>>),
                     QualifyingBlock(RaceHeadY, <<QualQ1Only>>)>>)}
    \cup Malformed("RaceTable")
    \cup {RacesTree(<<RaceHeadX>>),
          RacesTree(<<QualifyingBlock(RaceHeadBadRound, <<QualBase>>)>>),
          RacesTree(<<QualifyingBlock(RaceHeadX, <<QualBase, QualBadPosition>>)>>),
          RacesTree(<<QualifyingBlock(RaceHeadX, <<QualQ1Only, QualNoPosition>>)>>)}

\* pd.to_datetime of a date string that parses (every date of the payloads)
to_datetime(d) == [timestamp |-> d]

\* Items of the Drivers list: with and without the optional url and
\* dateOfBirth, and one without its nationality
DriverFull ==
    [driverId |-> "a", givenName |-> "Ann", familyName |-> "One",
     nationality |-> "N", url |-> "http://a", dateOfBirth |-> "1985-01-07"]
DriverBare ==
    [driverId |-> "b", givenName |-> "Bob", familyName |-> "Two",
     nationality |-> "M"]
DriverNoNationality ==
    [driverId |-> "b", givenName |-> "Bob", familyName |-> "Two"]

DriverItems == {DriverFull, DriverBare, DriverNoNationality}
DriversTree(items) == [MRData |-> [DriverTable |-> [Drivers |-> items]]]

\* Items of the Constructors list: with and without url, and without name
ConstructorFull ==
    [constructorId |-> "c", name |-> "Cee", nationality |-> "N", url |-> "http://c"]
ConstructorBare == [constructorId |-> "d", name |-> "Dee", nationality |-> "M"]
ConstructorNoName == [constructorId |-> "d", nationality |-> "M"]

ConstructorItems == {ConstructorFull, ConstructorBare, ConstructorNoName}
ConstructorsTree(items) ==
    [MRData |-> [ConstructorTable |-> [Constructors |-> items]]]

\* a page of a longer list: MRData reports a total of 30 items and a limit of
\* 1 beside the table
Paged(tree) ==
    [MRData |-> [total |-> <<"3", "0">>, limit |-> <<"1">>] @@ tree.MRData]

\* the JSON documents the API may answer a call of method o with, lists of
\* up to n items (n - 1 for the items that come in more kinds)
TreesOf(o, n) ==
    CASE o = "get_seasons" ->
            {SeasonsTree(l) : l \in SeqsUpTo(SeasonItems, n)}
            \cup Malformed("SeasonTable")
            \cup {Paged(SeasonsTree(<<[season |-> <<"5">>]>>))}
      [] o = "get_races" ->
            {RacesTree(l) : l \in SeqsUpTo(RaceItems, n - 1)}
            \cup Malformed("RaceTable")
            \cup {RacesTree(<<RaceItemNoRound>>), RacesTree(<<RaceItemFull>>),
                  RacesTree(<<RaceItemFull, RaceItemNoRound>>)}
      [] o = "get_results" ->
            ResultsTrees(n - 1)
            \cup {Paged(RacesTree(<<ResultsBlock(RaceHeadX, <<ResultBase>>)>>))}
      [] o = "get_qualifying" -> QualifyingTrees(n - 1)
      [] o = "get_drivers" ->
            {DriversTree(l) : l \in SeqsUpTo(DriverItems, n - 1)}
            \cup Malformed("DriverTable")
            \cup {DriversTree(<<DriverFull, DriverNoNationality>>),
                  Paged(DriversTree(<<DriverFull>>))}
      [] o = "get_constructors" ->
            {ConstructorsTree(l) : l \in SeqsUpTo(ConstructorItems, n - 1)}
            \cup Malformed("ConstructorTable")
            \cup {ConstructorsTree(<<ConstructorFull, ConstructorNoName>>)}
      [] OTHER ->
            {SeasonsTree(l) : l \in SeqsUpTo(SeasonItems, 1)}

Trees(o) == TreesOf(o, MaxItems)

\* a body: a JSON document, or text that response.json() cannot parse
NotJson == [json |-> FALSE, tree |-> <<>>]
BodiesOf(T) == {[json |-> TRUE, tree |-> t] : t \in T} \cup {NotJson}
Bodies(o) == BodiesOf(Trees(o))

\* the bodies of the specification that follows all six facade methods
FacadeBodies(o) == BodiesOf(TreesOf(o, FacadeItems))

\* the body of the specification with two callers
ConcBodies == BodiesOf({SeasonsTree(<<>>)})

\* the bodies that answer a call of method o in a specification of kind k
BodiesFor(k, o) ==
    CASE k = "full" -> Bodies(o)
      [] k = "facade" -> FacadeBodies(o)
      [] OTHER -> ConcBodies
NoBody == [json |-> FALSE, tree |-> <<>>]

----------------------------------------------------------------------------
\* The extractors.  Each gives [raised, kind, value]: the exception raised
\* ("none" when it returns) and the value returned.

Returned(k, v) == [raised |-> "none", kind |-> k, value |-> v]
Raised(e) == [raised |-> e, kind |-> "none", value |-> <<>>]

\* a variant that answers a failed extraction with an empty value
Outcome_empty(e, k, v) == IF e # "none" THEN Returned(k, <<>>) ELSE Returned(k, v)

\* an extraction that met exception e raises it (the handler logs and
\* re-raises); otherwise the method returns v
Outcome(e, k, v) == IF e # "none" THEN Raised(e) ELSE Returned(k, v)

\* a variant that drops a row when two rows are equal
DataFrame_distinct(rows) ==
    IF \E i \in 1..Len(rows), j \in 1..Len(rows) : i < j /\ rows[i] = rows[j]
    THEN SubSeq(rows, 1, Len(rows) - 1)
    ELSE rows

\* pd.DataFrame(records): one row per record, in the order of the list (a
\* key that a record lacks reads as NaN in its row; the model keeps the row
\* as the record, the key absent)
DataFrame(rows) == rows

\* the first exception of a sequence of evaluations, in their order
RECURSIVE FirstError(_)
FirstError(es) ==
    IF es = <<>> THEN "none"
    ELSE IF Head(es) # "none" THEN Head(es)
    ELSE FirstError(Tail(es))

\* d[k]
KeyErr(d, k) == IF Has(d, k) THEN "none" ELSE "KeyError"

\* int(d[k])
IntErr(d, k) ==
    IF ~Has(d, k) THEN "KeyError"
    ELSE IF int_parses(d[k]) THEN "none" ELSE "ValueError"

\* float(d[k])
FloatErr(d, k) ==
    IF ~Has(d, k) THEN "KeyError"
    ELSE IF float_parses(d[k]) THEN "none" ELSE "ValueError"

\* response["MRData"][table][list]
EnvelopeErr(response, table, list) ==
    IF /\ Has(response, "MRData")
       /\ Has(response.MRData, table)
       /\ Has(response.MRData[table], list)
    THEN "none" ELSE "KeyError"

RECURSIVE Insert(_, _)
Insert(x, l) ==
    IF l = <<>> THEN <<x>>
    ELSE IF x < Head(l) THEN <<x>> \o l
    ELSE <<Head(l)>> \o Insert(x, Tail(l))

\* a variant that leaves the order of the source
sorted_not(l) == l

\* sorted(l): ascending, every element kept
RECURSIVE sorted(_)
sorted(l) == IF l = <<>> THEN <<>> ELSE Insert(Head(l), sorted(Tail(l)))

\* a variant that excludes the two bounds
InRange_open(start_year, y, end_year) == start_year < y /\ y < end_year

\* start_year <= int(season["season"]) <= end_year
InRange(start_year, y, end_year) == start_year <= y /\ y <= end_year

\* [int(s["season"]) for s in seasons_data if start_year <= int(...) <= end_year]
RECURSIVE SeasonsIn(_, _, _)
SeasonsIn(seasons_data, start_year, end_year) ==
    IF seasons_data = <<>> THEN <<>>
    ELSE LET y == int_of(Head(seasons_data).season)
             rest == SeasonsIn(Tail(seasons_data), start_year, end_year)
         IN  IF InRange(start_year, y, end_year) THEN <<y>> \o rest ELSE rest

\* get_seasons after the request: the comprehension and sorted(seasons)
get_seasons(start_year, end_year, response) ==
    LET seasons_data == response.MRData.SeasonTable.Seasons
        e == IF EnvelopeErr(response, "SeasonTable", "Seasons") # "none"
             THEN "KeyError"
             ELSE FirstError([i \in 1..Len(seasons_data) |->
                                 IntErr(seasons_data[i], "season")])
    IN  Outcome(e, "list", sorted(SeasonsIn(seasons_data, start_year, end_year)))

\* a variant that leaves out the round
race_id_season_only(race) == race.season \o <<"_">>

\* f"{race['season']}_{race['round']}"
race_id(race) == race.season \o <<"_">> \o race.round

\* d.get(k, default)
get(d, k, default) == IF Has(d, k) THEN d[k] ELSE default

\* race_info of get_races: the fields derived from season and round, the url
\* and the time (the name, circuit and date are mandatory fields copied from
\* the item and are left out)
race_info(race) ==
    LET info == [season  |-> int_of(race.season),
                 round   |-> int_of(race.round),
                 race_id |-> race_id(race),
                 url     |-> get(race, "url", "")]
    IN  IF Has(race, "time") THEN info @@ [time |-> race.time] ELSE info

\* what building race_info of get_races raises
race_error(race) ==
    FirstError(<<IntErr(race, "season"), IntErr(race, "round")>>)

\* get_races after the request: one race_info per item of Races
get_races(response) ==
    LET races_data == response.MRData.RaceTable.Races
        e == IF EnvelopeErr(response, "RaceTable", "Races") # "none"
             THEN "KeyError"
             ELSE FirstError([i \in 1..Len(races_data) |-> race_error(races_data[i])])
    IN  Outcome(e, "table",
                DataFrame([i \in 1..Len(races_data) |-> race_info(races_data[i])]))

\* a variant that puts 0 where the string is no number
int_if_digit_zero(x) == IF isdigit(x) THEN int_of(x) ELSE 0

\* int(x) if x.isdigit() else None
int_if_digit(x) == IF isdigit(x) THEN int_of(x) ELSE None

\* int(d.get(k, default)) for an integer default
get_int(d, k, default) == IF Has(d, k) THEN int_of(d[k]) ELSE default

\* f"{driver['givenName']} {driver['familyName']}", kept in its three parts
driver_name(driver) == <<driver.givenName, " ", driver.familyName>>

\* what reading the Driver block raises
driver_error(item) ==
    IF ~Has(item, "Driver") THEN "KeyError"
    ELSE FirstError(<<KeyErr(item.Driver, "driverId"),
                      KeyErr(item.Driver, "givenName"),
                      KeyErr(item.Driver, "familyName")>>)

\* what the FastestLap block of a result raises
fastest_lap_error(res) ==
    IF ~Has(res, "FastestLap") THEN "none"
    ELSE LET fastest_lap == res.FastestLap
         IN  IF Has(fastest_lap, "rank") /\ ~int_parses(fastest_lap.rank)
             THEN "ValueError"
             ELSE IF Has(fastest_lap, "Time")
             THEN KeyErr(fastest_lap.Time, "time")
             ELSE "none"

\* what building result_info raises, in the order of its evaluation
result_error(res) ==
    FirstError(<<KeyErr(res, "position"), driver_error(res),
                 KeyErr(res, "grid"), IntErr(res, "laps"),
                 FloatErr(res, "points"), fastest_lap_error(res)>>)

\* race_info of get_results and get_qualifying (circuit_id and date are
\* mandatory fields copied from the block and are left out)
block_info(race) ==
    [season    |-> int_of(race.season),
     round     |-> int_of(race.round),
     race_name |-> race.raceName]

\* what building that race_info raises
block_error(race) ==
    FirstError(<<IntErr(race, "season"), IntErr(race, "round"),
                 KeyErr(race, "raceName")>>)

\* a variant that starts every record afresh
copy_nothing(info) == [season |-> 0, round |-> 0, race_name |-> ""]

\* race_info.copy(): the contents of the new dict
copy(info) == info

\* a variant in which the record is race_info itself
copy_id_shared(n) == 0

\* race_info.copy(): the identity of the new dict.  The dicts of the loop
\* over one race are numbered: race_info is dict 0, and the copy made for
\* the n-th item is a dict of its own, dict n.
copy_id(n) == n

\* the dicts of a loop, by number: dict ref now holds d
Store(heap, ref, d) == (ref :> d) @@ heap

\* result_info after the update and the optional fields, for a dict that
\* held info before; an assignment replaces the value of a key already there
result_info(info, res) ==
    LET updated ==
            [position    |-> int_if_digit(res.position),
             driver_id   |-> res.Driver.driverId,
             driver_name |-> driver_name(res.Driver),
             grid        |-> int_if_digit(res.grid),
             laps        |-> int_of(res.laps),
             points      |-> float_of(res.points)]
            @@ info
        timed ==
            IF Has(res, "Time") /\ Has(res.Time, "time")
            THEN [race_time |-> res.Time.time] @@ updated
            ELSE updated
    IN  IF ~Has(res, "FastestLap") THEN timed
        ELSE LET fastest_lap == res.FastestLap
                 ranked == [fastest_lap_rank |-> get_int(fastest_lap, "rank", 0)] @@ timed
             IN  IF Has(fastest_lap, "Time")
                 THEN [fastest_lap_time |-> fastest_lap.Time.time] @@ ranked
                 ELSE ranked

\* for result in race["Results"]: result_info = race_info.copy(), the update,
\* results.append(result_info).  heap holds the dicts made so far and rows
\* the numbers of the dicts appended.
RECURSIVE ResultsLoop(_, _, _)
ResultsLoop(heap, rows, items) ==
    IF items = <<>> THEN [heap |-> heap, rows |-> rows]
    ELSE LET ref == copy_id(Len(rows) + 1)
         IN  ResultsLoop(Store(heap, ref, result_info(copy(heap[0]), Head(items))),
                         Append(rows, ref), Tail(items))

\* the dicts appended by a loop, as they are when the table is made
RowsOf(loop) == [i \in 1..Len(loop.rows) |-> loop.heap[loop.rows[i]]]

\* what the loop over one race of get_results raises
results_race_error(race) ==
    IF block_error(race) # "none" THEN block_error(race)
    ELSE IF ~Has(race, "Results") THEN "KeyError"
    ELSE FirstError([i \in 1..Len(race.Results) |-> result_error(race.Results[i])])

\* the records of get_results: race by race, and result by result in a race
RECURSIVE ResultsRecords(_)
ResultsRecords(races_data) ==
    IF races_data = <<>> THEN <<>>
    ELSE LET race == Head(races_data)
         IN  RowsOf(ResultsLoop(0 :> block_info(race), <<>>, race.Results))
             \o ResultsRecords(Tail(races_data))

\* get_results after the request
get_results(response) ==
    LET races_data == response.MRData.RaceTable.Races
        e == IF EnvelopeErr(response, "RaceTable", "Races") # "none"
             THEN "KeyError"
             ELSE FirstError([i \in 1..Len(races_data) |->
                                 results_race_error(races_data[i])])
    IN  Outcome(e, "table", DataFrame(ResultsRecords(races_data)))

\* what building qual_info raises, in the order of its evaluation
qual_error(qual) ==
    FirstError(<<IntErr(qual, "position"), driver_error(qual)>>)

\* if session in qual: qual_info[f"{session.lower()}_time"] = qual[session]
with_session(info, qual, session, key) ==
    IF Has(qual, session) THEN (key :> qual[session]) @@ info ELSE info

\* qual_info after the update and the session times, for a dict that held
\* info before
qual_info(info, qual) ==
    LET updated ==
            [position    |-> int_of(qual.position),
             driver_id   |-> qual.Driver.driverId,
             driver_name |-> driver_name(qual.Driver)]
            @@ info
    IN  with_session(
            with_session(
                with_session(updated, qual, "Q1", "q1_time"),
                qual, "Q2", "q2_time"),
            qual, "Q3", "q3_time")

\* what the loop over one race of get_qualifying raises
qualifying_race_error(race) ==
    IF block_error(race) # "none" THEN block_error(race)
    ELSE IF ~Has(race, "QualifyingResults") THEN "KeyError"
    ELSE FirstError([i \in 1..Len(race.QualifyingResults) |->
                        qual_error(race.QualifyingResults[i])])

\* for qual in race["QualifyingResults"]: qual_info = race_info.copy(), the
\* update, qualifying_results.append(qual_info)
RECURSIVE QualifyingLoop(_, _, _)
QualifyingLoop(heap, rows, items) ==
    IF items = <<>> THEN [heap |-> heap, rows |-> rows]
    ELSE LET ref == copy_id(Len(rows) + 1)
         IN  QualifyingLoop(Store(heap, ref, qual_info(copy(heap[0]), Head(items))),
                            Append(rows, ref), Tail(items))

\* the records of get_qualifying: race by race, in the order of each list
RECURSIVE QualifyingRecords(_)
QualifyingRecords(races_data) ==
    IF races_data = <<>> THEN <<>>
    ELSE LET race == Head(races_data)
         IN  RowsOf(QualifyingLoop(0 :> block_info(race), <<>>, race.QualifyingResults))
             \o QualifyingRecords(Tail(races_data))

\* get_qualifying after the request
get_qualifying(response) ==
    LET races_data == response.MRData.RaceTable.Races
        e == IF EnvelopeErr(response, "RaceTable", "Races") # "none"
             THEN "KeyError"
             ELSE FirstError([i \in 1..Len(races_data) |->
                                 qualifying_race_error(races_data[i])])
    IN  Outcome(e, "table", DataFrame(QualifyingRecords(races_data)))

\* what building driver_info raises
driver_info_error(driver) ==
    FirstError(<<KeyErr(driver, "driverId"), KeyErr(driver, "givenName"),
                 KeyErr(driver, "familyName"), KeyErr(driver, "nationality")>>)

\* driver_info, with the date of birth when the item has one
driver_info(driver) ==
    LET info == [driver_id   |-> driver.driverId,
                 given_name  |-> driver.givenName,
                 family_name |-> driver.familyName,
                 driver_name |-> driver_name(driver),
                 nationality |-> driver.nationality,
                 url         |-> get(driver, "url", "")]
    IN  IF Has(driver, "dateOfBirth")
        THEN info @@ [date_of_birth |-> to_datetime(driver.dateOfBirth)]
        ELSE info

\* get_drivers after the request: one driver_info per item of Drivers
get_drivers(response) ==
    LET drivers_data == response.MRData.DriverTable.Drivers
        e == IF EnvelopeErr(response, "DriverTable", "Drivers") # "none"
             THEN "KeyError"
             ELSE FirstError([i \in 1..Len(drivers_data) |->
                                 driver_info_error(drivers_data[i])])
    IN  Outcome(e, "table",
                DataFrame([i \in 1..Len(drivers_data) |-> driver_info(drivers_data[i])]))

\* what building constructor_info raises
constructor_info_error(constructor) ==
    FirstError(<<KeyErr(constructor, "constructorId"), KeyErr(constructor, "name"),
                 KeyErr(constructor, "nationality")>>)

\* constructor_info
constructor_info(constructor) ==
    [constructor_id   |-> constructor.constructorId,
     constructor_name |-> constructor.name,
     nationality      |-> constructor.nationality,
     url              |-> get(constructor, "url", "")]

\* get_constructors after the request: one constructor_info per item
get_constructors(response) ==
    LET constructors_data == response.MRData.ConstructorTable.Constructors
        e == IF EnvelopeErr(response, "ConstructorTable", "Constructors") # "none"
             THEN "KeyError"
             ELSE FirstError([i \in 1..Len(constructors_data) |->
                                 constructor_info_error(constructors_data[i])])
    IN  Outcome(e, "table",
                DataFrame([i \in 1..Len(constructors_data) |->
                              constructor_info(constructors_data[i])]))

\* what method o makes of the parsed response
Extract(o, a, response) ==
    CASE o = "get_seasons" -> get_seasons(a.start_year, a.end_year, response)
      [] o = "get_races" -> get_races(response)
      [] o = "get_results" -> get_results(response)
      [] o = "get_qualifying" -> get_qualifying(response)
      [] o = "get_drivers" -> get_drivers(response)
      [] o = "get_constructors" -> get_constructors(response)
      [] OTHER -> Returned("json", response)

----------------------------------------------------------------------------
\* The state after construction: ErgastCollector(rate_limit), nobody calling

YearArgs == 5..6

\* an endpoint, kept in its segments: "{season}/{round}/{resource}" with the
\* segments that are None left out
Path(season, round_num, resource) ==
    [season |-> season, round |-> round_num, resource |-> resource]

\* f"{season}/{round_num}/results" if round_num else f"{season}/results"
results_endpoint(season, round_num) ==
    IF Truthy(round_num) THEN Path(season, round_num, "results")
    ELSE Path(season, None, "results")

\* f"{season}/{round_num}/qualifying" if round_num else f"{season}/qualifying"
qualifying_endpoint(season, round_num) ==
    IF Truthy(round_num) THEN Path(season, round_num, "qualifying")
    ELSE Path(season, None, "qualifying")

\* f"{season}/drivers" if season else "drivers"
drivers_endpoint(season) ==
    IF Truthy(season) THEN Path(season, None, "drivers")
    ELSE Path(None, None, "drivers")

\* f"{season}/constructors" if season else "constructors"
constructors_endpoint(season) ==
    IF Truthy(season) THEN Path(season, None, "constructors")
    ELSE Path(None, None, "constructors")

\* the arguments a facade method may be called with
RoundArgs == {None, 0, 1}
ResultSeasonArgs == {5}
SeasonArgs == {None, 0, 5}

NoArgs ==
    [start_year |-> None, end_given |-> None, end_year |-> None,
     season |-> None, round_num |-> None, endpoint |-> Path(None, None, "")]
NoResult == [kind |-> "none", value |-> <<>>]

Init ==
    /\ now = 0
    /\ rate_limit \in 0..MaxRate
    /\ pc = [c \in Callers |-> "idle"]
    /\ op = [c \in Callers |-> "none"]
    /\ args = [c \in Callers |-> NoArgs]
    /\ given = [c \in Callers |-> FALSE]
    /\ orig = [c \in Callers |-> EmptyDict]
    /\ params = [c \in Callers |-> EmptyDict]
    /\ sent = [c \in Callers |-> EmptyDict]
    /\ total = [c \in Callers |-> RetryTotal]
    /\ attempts = [c \in Callers |-> 0]
    /\ retried = [c \in Callers |-> 0]
    /\ last = [c \in Callers |-> NoResponse]
    /\ body = [c \in Callers |-> NoBody]
    /\ wake = [c \in Callers |-> 0]
    /\ sleeps = [c \in Callers |-> 0]
    /\ err = [c \in Callers |-> "none"]
    /\ result = [c \in Callers |-> NoResult]
    /\ okAt = [c \in Callers |-> None]
    /\ reqAt = [c \in Callers |-> None]
    /\ short = [c \in Callers |-> FALSE]

----------------------------------------------------------------------------
\* The steps of a call

\* time passes
Tick ==
    /\ now < MaxTime
    /\ now' = now + 1
    /\ UNCHANGED <<rate_limit, pc, op, args, given, orig, params, sent, total,
                   attempts, retried, last, body, wake, sleeps, err, result,
                   okAt,
                   reqAt, short>>

\* Entry of _make_request for method o: params defaults to a fresh {} when the
\* caller passed none, setdefault("limit", 1000) is applied to it, and a new
\* Retry budget starts with the session.get that follows.
Enter(c, o, a, g, p) ==
    /\ pc[c] \in {"idle", "done"}
    /\ op' = [op EXCEPT ![c] = o]
    /\ args' = [args EXCEPT ![c] = a]
    /\ given' = [given EXCEPT ![c] = g]
    /\ orig' = [orig EXCEPT ![c] = p]
    /\ params' = [params EXCEPT ![c] =
                    IF g THEN setdefault(p, "limit", DefaultLimit) ELSE p]
    /\ sent' = [sent EXCEPT ![c] = setdefault(p, "limit", DefaultLimit)]
    /\ total' = [total EXCEPT ![c] = RetryTotal]
    /\ attempts' = [attempts EXCEPT ![c] = 0]
    /\ retried' = [retried EXCEPT ![c] = 0]
    /\ last' = [last EXCEPT ![c] = NoResponse]
    /\ body' = [body EXCEPT ![c] = NoBody]
    /\ sleeps' = [sleeps EXCEPT ![c] = 0]
    /\ err' = [err EXCEPT ![c] = "none"]
    /\ result' = [result EXCEPT ![c] = NoResult]
    /\ okAt' = [okAt EXCEPT ![c] =
                  IF pc[c] = "done" /\ err[c] = "none" THEN @ ELSE None]
    /\ pc' = [pc EXCEPT ![c] = "send"]
    /\ reqAt' = [reqAt EXCEPT ![c] = None]
    /\ short' = [short EXCEPT ![c] = FALSE]
    /\ UNCHANGED <<now, rate_limit, wake>>

\* a caller invokes _make_request itself, with a params map or without
CallMakeRequest(c) ==
    \/ Enter(c, "_make_request", NoArgs, FALSE, EmptyDict)
    \/ \E p \in Dicts : Enter(c, "_make_request", NoArgs, TRUE, p)

\* a caller invokes _make_request without a params map
CallPlain(c) == Enter(c, "_make_request", NoArgs, FALSE, EmptyDict)

\* get_seasons(start_year, end_year): end_year None becomes the current year
CallGetSeasons(c) ==
    \E s \in YearArgs, e \in YearArgs \cup {None}, current \in YearArgs :
        Enter(c, "get_seasons",
              [NoArgs EXCEPT !.start_year = s, !.end_given = e,
                             !.end_year = IF e = None THEN current ELSE e,
                             !.endpoint = Path(None, None, "seasons")],
              FALSE, EmptyDict)

\* get_races(season)
CallGetRaces(c) ==
    \E s \in YearArgs :
        Enter(c, "get_races",
              [NoArgs EXCEPT !.season = s, !.endpoint = Path(s, None, "")],
              FALSE, EmptyDict)

\* get_results(season, round_num)
CallGetResults(c) ==
    \E s \in ResultSeasonArgs, r \in RoundArgs :
        Enter(c, "get_results",
              [NoArgs EXCEPT !.season = s, !.round_num = r,
                             !.endpoint = results_endpoint(s, r)],
              FALSE, EmptyDict)

\* get_qualifying(season, round_num)
CallGetQualifying(c) ==
    \E s \in ResultSeasonArgs, r \in RoundArgs :
        Enter(c, "get_qualifying",
              [NoArgs EXCEPT !.season = s, !.round_num = r,
                             !.endpoint = qualifying_endpoint(s, r)],
              FALSE, EmptyDict)

\* get_drivers(season)
CallGetDrivers(c) ==
    \E s \in SeasonArgs :
        Enter(c, "get_drivers",
              [NoArgs EXCEPT !.season = s, !.endpoint = drivers_endpoint(s)],
              FALSE, EmptyDict)

\* get_constructors(season)
CallGetConstructors(c) ==
    \E s \in SeasonArgs :
        Enter(c, "get_constructors",
              [NoArgs EXCEPT !.season = s, !.endpoint = constructors_endpoint(s)],
              FALSE, EmptyDict)

\* a variant that raises an error of its own
reraise_other(e) == "RuntimeError"

\* except ... as e: logger.error(...); raise
reraise(e) == e

\* the session issues one HTTP attempt
Send(c) ==
    /\ pc[c] = "send"
    /\ attempts' = [attempts EXCEPT ![c] = @ + 1]
    /\ last' = [last EXCEPT ![c] = NoResponse]
    /\ pc' = [pc EXCEPT ![c] = "wait"]
    /\ reqAt' = [reqAt EXCEPT ![c] = now]
    /\ short' = [short EXCEPT ![c] = reqAt[c] # None /\ now - reqAt[c] < rate_limit]
    /\ UNCHANGED <<now, rate_limit, op, args, given, orig, params, sent, total,
                   retried, body, wake, sleeps, err, result, okAt>>

\* does the retry policy take this response?
Retryable(c, r) ==
    r.kind = "error" \/ is_retry(total[c], r.status, r.retry_after)

\* the attempt failed or was answered with a status the policy retries, and
\* the budget allows another attempt
RespondRetry(c, r) ==
    /\ pc[c] = "wait"
    /\ Retryable(c, r)
    /\ ~is_exhausted(increment(total[c]))
    /\ total' = [total EXCEPT ![c] = increment(@)]
    /\ retried' = [retried EXCEPT ![c] = @ + 1]
    /\ last' = [last EXCEPT ![c] = r]
    /\ pc' = [pc EXCEPT ![c] = "send"]
    /\ UNCHANGED <<now, rate_limit, op, args, given, orig, params, sent,
                   attempts, body, wake, sleeps, err, result, okAt,
                   reqAt, short>>

\* the same with the budget used up: MaxRetryError, which requests raises as
\* RetryError (a status) or ConnectionError; _make_request logs and re-raises
RespondExhausted(c, r) ==
    /\ pc[c] = "wait"
    /\ Retryable(c, r)
    /\ is_exhausted(increment(total[c]))
    /\ total' = [total EXCEPT ![c] = increment(@)]
    /\ last' = [last EXCEPT ![c] = r]
    /\ err' = [err EXCEPT ![c] =
                 reraise(IF r.kind = "error" THEN "ConnectionError" ELSE "RetryError")]
    /\ pc' = [pc EXCEPT ![c] = "done"]
    /\ reqAt' = [reqAt EXCEPT ![c] = None]
    /\ short' = [short EXCEPT ![c] = FALSE]
    /\ UNCHANGED <<now, rate_limit, op, args, given, orig, params, sent,
                   attempts, retried, body, wake, sleeps, result, okAt>>

\* a response the policy does not retry, refused by raise_for_status:
\* HTTPError, logged and re-raised
RespondHTTPError(c, r) ==
    /\ pc[c] = "wait"
    /\ ~Retryable(c, r)
    /\ raise_for_status(r.status)
    /\ last' = [last EXCEPT ![c] = r]
    /\ err' = [err EXCEPT ![c] = reraise("HTTPError")]
    /\ pc' = [pc EXCEPT ![c] = "done"]
    /\ reqAt' = [reqAt EXCEPT ![c] = None]
    /\ short' = [short EXCEPT ![c] = FALSE]
    /\ UNCHANGED <<now, rate_limit, op, args, given, orig, params, sent, total,
                   attempts, retried, body, wake, sleeps, result, okAt>>

\* a variant in which the sleep returns at once
SleepUntil_now(t, d) == t

\* time.sleep(d) entered at time t returns at t + d or later
SleepUntil(t, d) == t + d

\* a response that passes raise_for_status: time.sleep(self.rate_limit) begins
\* (a sleep that would outlast the bounded clock is not started)
RespondPass(c, r, b) ==
    /\ pc[c] = "wait"
    /\ now + rate_limit <= MaxTime
    /\ ~Retryable(c, r)
    /\ ~raise_for_status(r.status)
    /\ last' = [last EXCEPT ![c] = r]
    /\ body' = [body EXCEPT ![c] = b]
    /\ okAt' = [okAt EXCEPT ![c] = now]
    /\ sleeps' = [sleeps EXCEPT ![c] = @ + 1]
    /\ wake' = [wake EXCEPT ![c] = SleepUntil(now, rate_limit)]
    /\ pc' = [pc EXCEPT ![c] = "sleep"]
    /\ reqAt' = [reqAt EXCEPT ![c] = None]
    /\ short' = [short EXCEPT ![c] = FALSE]
    /\ UNCHANGED <<now, rate_limit, op, args, given, orig, params, sent, total,
                   attempts, retried, err, result>>

\* a variant that asks for the next page when the response reports a total
next_request_by_total(o, b) ==
    b.json /\ Has(b.tree, "MRData") /\ Has(b.tree.MRData, "total")

\* does method o call _make_request again after the response with body b?
\* No method does: each calls it once, reads the table of the response and
\* returns, and none reads total, limit or offset of MRData.
next_request(o, b) == FALSE

\* the sleep is over: response.json(), then the method's own extraction; what
\* either raises is logged and re-raised
Wake(c) ==
    /\ pc[c] = "sleep"
    /\ now >= wake[c]
    /\ LET out == IF body[c].json THEN Extract(op[c], args[c], body[c].tree)
                  ELSE Raised("JSONDecodeError")
       IN  /\ err' = [err EXCEPT ![c] =
                        IF out.raised = "none" THEN "none" ELSE reraise(out.raised)]
           /\ result' = [result EXCEPT ![c] = [kind |-> out.kind, value |-> out.value]]
    /\ wake' = [wake EXCEPT ![c] = 0]
    /\ pc' = [pc EXCEPT ![c] = IF next_request(op[c], body[c]) THEN "send" ELSE "done"]
    /\ UNCHANGED <<now, rate_limit, op, args, given, orig, params, sent, total,
                   attempts, retried, last, body, sleeps, okAt,
                   reqAt, short>>

\* the steps of a call in flight, answered by the responses R and the bodies
\* of kind k
StepOver(c, R, k) ==
    \/ Send(c)
    \/ \E r \in R : RespondRetry(c, r)
    \/ \E r \in R : RespondExhausted(c, r)
    \/ \E r \in R : RespondHTTPError(c, r)
    \/ \E r \in R, b \in BodiesFor(k, op[c]) : RespondPass(c, r, b)
    \/ Wake(c)

Step(c) == StepOver(c, Responses, "full")

----------------------------------------------------------------------------
\* Specifications: one caller, calling in sequence

\* the request executor called directly
Next ==
    \/ Tick
    \/ \E c \in Sequential : CallMakeRequest(c)
    \/ \E c \in Sequential : Step(c)

Spec == Init /\ [][Next]_vars

\* the same, with what the runtime guarantees: the clock advances, the server
\* or the timeout ends every attempt, and the calling thread keeps running
SpecLive ==
    /\ Spec
    /\ WF_vars(Tick)
    /\ \A c \in Sequential : WF_vars(Step(c))

\* The facade methods are followed on a collector built with rate_limit = 0,
\* on which no call ever waits for the clock.
InitNoDelay == Init /\ rate_limit = 0

\* get_seasons
NextSeasons ==
    \/ \E c \in Sequential : CallGetSeasons(c)
    \/ \E c \in Sequential : Step(c)

SpecSeasons == InitNoDelay /\ [][NextSeasons]_vars

\* get_races
NextRaces ==
    \/ \E c \in Sequential : CallGetRaces(c)
    \/ \E c \in Sequential : Step(c)

SpecRaces == InitNoDelay /\ [][NextRaces]_vars

\* get_results
NextResults ==
    \/ \E c \in Sequential : CallGetResults(c)
    \/ \E c \in Sequential : Step(c)

SpecResults == InitNoDelay /\ [][NextResults]_vars

\* get_qualifying
NextQualifying ==
    \/ \E c \in Sequential : CallGetQualifying(c)
    \/ \E c \in Sequential : Step(c)

SpecQualifying == InitNoDelay /\ [][NextQualifying]_vars

\* get_drivers
NextDrivers ==
    \/ \E c \in Sequential : CallGetDrivers(c)
    \/ \E c \in Sequential : Step(c)

SpecDrivers == InitNoDelay /\ [][NextDrivers]_vars

\* get_constructors
NextConstructors ==
    \/ \E c \in Sequential : CallGetConstructors(c)
    \/ \E c \in Sequential : Step(c)

SpecConstructors == InitNoDelay /\ [][NextConstructors]_vars

\* the two methods that make the records of a race from one race_info
NextRaceScoped ==
    \/ \E c \in Sequential : CallGetResults(c)
    \/ \E c \in Sequential : CallGetQualifying(c)
    \/ \E c \in Sequential : Step(c)

SpecRaceScoped == InitNoDelay /\ [][NextRaceScoped]_vars

\* the four methods that make one record of each item of a list
NextLists ==
    \/ \E c \in Sequential : CallGetRaces(c)
    \/ \E c \in Sequential : CallGetQualifying(c)
    \/ \E c \in Sequential : CallGetDrivers(c)
    \/ \E c \in Sequential : CallGetConstructors(c)
    \/ \E c \in Sequential : Step(c)

SpecLists == InitNoDelay /\ [][NextLists]_vars

\* Two callers share the collector: each call has its own locals and its
\* own sleep, the session and rate_limit are common, and nothing orders the
\* calls.  The server answers 200, 404 or 503.
ConcResponses ==
    {r \in Responses : r.status \in {200, 404, 503} /\ ~r.retry_after}

NextConc ==
    \/ Tick
    \/ \E c \in Callers : CallPlain(c)
    \/ \E c \in Callers : StepOver(c, ConcResponses, "one")

SpecConc == Init /\ [][NextConc]_vars

\* all six facade methods, on short lists
NextFacade ==
    \/ \E c \in Sequential : CallGetSeasons(c)
    \/ \E c \in Sequential : CallGetRaces(c)
    \/ \E c \in Sequential : CallGetResults(c)
    \/ \E c \in Sequential : CallGetQualifying(c)
    \/ \E c \in Sequential : CallGetDrivers(c)
    \/ \E c \in Sequential : CallGetConstructors(c)
    \/ \E c \in Sequential : StepOver(c, Responses, "facade")

SpecFacade == InitNoDelay /\ [][NextFacade]_vars

----------------------------------------------------------------------------
\* Properties of the request executor

TransportErrors == {"HTTPError", "RetryError", "ConnectionError"}
Is2xx(status) == 200 <= status /\ status < 300

\* C1 as stated: a call of _make_request never makes more than 3 HTTP
\* attempts (the initial one and 2 retries).
C1_AtMostThreeAttempts ==
    \A c \in Callers : attempts[c] <= 3

\* C1, amended: a call of _make_request never makes more than 4 HTTP attempts
\* (the initial one and the 3 retries of Retry(total=3)); a call that fails
\* because the retries ran out has made exactly 4 and makes no 5th.
C1_AtMostFourAttempts ==
    \A c \in Callers :
        /\ attempts[c] <= 4
        /\ err[c] \in {"RetryError", "ConnectionError"} =>
               attempts[c] = 4 /\ pc[c] = "done"

\* 503, 503, 503, 503: the call has failed after its 4th attempt
C1_Witness ==
    /\ pc["A"] = "done" /\ err["A"] = "RetryError"
    /\ last["A"].status = 503 /\ attempts["A"] = 4 /\ retried["A"] = 3

\* C2: a status of the retry set received on one of the first two attempts is
\* answered by a retry and not by a failure; a call whose latest response is a
\* 2xx with a JSON body ends, returns that body parsed, and has made exactly
\* one attempt per retried response plus the one that succeeded.
C2_RetryThenSuccess ==
    /\ [](\A c \in Callers :
            /\ last[c].status \in status_forcelist /\ attempts[c] <= 2 =>
                   pc[c] = "send" /\ err[c] = "none"
            /\ pc[c] = "done" /\ Is2xx(last[c].status) /\ body[c].json =>
                   /\ err[c] = "none"
                   /\ result[c].kind = "json"
                   /\ result[c].value = body[c].tree
                   /\ attempts[c] = retried[c] + 1)
    /\ \A c \in Sequential :
          (pc[c] = "sleep" /\ Is2xx(last[c].status) /\ body[c].json)
              ~> (pc[c] = "done" /\ err[c] = "none" /\ result[c].kind = "json")

\* two retried responses, then a 200 whose parsed body was returned
C2_Witness ==
    /\ pc["A"] = "done" /\ err["A"] = "none"
    /\ last["A"].status = 200 /\ attempts["A"] = 3 /\ retried["A"] = 2
    /\ result["A"].kind = "json" /\ result["A"].value = body["A"].tree

\* C3 as stated: a response whose status is neither 2xx nor in the retry set
\* ends the call with a transport error, without a retry and without a payload;
\* when it answers the first attempt, the call has made exactly one attempt.
C3_AnyOtherStatusFails ==
    \A c \in Callers :
        (/\ last[c].kind = "status"
         /\ ~Is2xx(last[c].status)
         /\ last[c].status \notin status_forcelist)
        => /\ pc[c] = "done"
           /\ err[c] \in TransportErrors
           /\ result[c].kind = "none"
           /\ retried[c] = 0 => attempts[c] = 1

\* C3, amended: a 4xx or 5xx response whose status is not in the retry set, and
\* which is not a 413 carrying a Retry-After header, ends the call with an
\* HTTPError: no retry follows it, nothing is returned, and when it answers
\* the first attempt the call has made exactly one attempt.
C3_ErrorStatusFails ==
    \A c \in Callers :
        (/\ last[c].kind = "status"
         /\ 400 <= last[c].status /\ last[c].status < 600
         /\ last[c].status \notin status_forcelist
         /\ ~(last[c].status = 413 /\ last[c].retry_after))
        => /\ pc[c] = "done"
           /\ err[c] = "HTTPError"
           /\ result[c].kind = "none"
           /\ sleeps[c] = 0
           /\ attempts[c] = retried[c] + 1
           /\ retried[c] = 0 => attempts[c] = 1

\* a 404 answered the first attempt and the call has failed
C3_Witness ==
    /\ pc["A"] = "done" /\ err["A"] = "HTTPError"
    /\ last["A"].status = 404 /\ attempts["A"] = 1

\* C4 as stated: one rate-limit sleep per successful call, after the response
\* and before the return; none before an attempt, none in a call that fails.
C4_SleepOnlyInSuccessfulCalls ==
    \A c \in Callers :
        /\ sleeps[c] <= 1
        /\ pc[c] \in {"send", "wait"} => sleeps[c] = 0
        /\ pc[c] = "done" /\ err[c] = "none" => sleeps[c] = 1
        /\ pc[c] = "done" /\ err[c] # "none" => sleeps[c] = 0

\* C4, amended: the rate-limit sleep runs at most once per call, only after a
\* response that passed raise_for_status, and ends before the call returns;
\* every call that returns has slept once; no attempt is made after or during
\* it; a call that fails with a transport error (HTTPError, RetryError,
\* ConnectionError) has not slept, while a call that fails because the body of
\* the accepted response is not JSON has slept once before failing.
C4_SleepAfterAcceptedResponse ==
    \A c \in Callers :
        /\ sleeps[c] <= 1
        /\ pc[c] \in {"send", "wait"} => sleeps[c] = 0
        /\ sleeps[c] = 1 => last[c].kind = "status" /\ last[c].status < 400
        /\ pc[c] = "sleep" => sleeps[c] = 1 /\ result[c].kind = "none"
        /\ pc[c] = "done" /\ err[c] = "none" => sleeps[c] = 1
        /\ err[c] \in TransportErrors => sleeps[c] = 0
        /\ err[c] = "JSONDecodeError" => sleeps[c] = 1

\* a call that failed on the body of a 200 after its sleep
C4_Witness ==
    /\ pc["A"] = "done" /\ err["A"] = "JSONDecodeError"
    /\ last["A"].status = 200 /\ sleeps["A"] = 1 /\ rate_limit > 0

\* C5: when a caller's previous call returned normally, the first attempt of
\* its next call is issued at least rate_limit after the response of that
\* previous call was received.
C5_SpacingAfterSuccess ==
    \A c \in Callers :
        pc[c] = "wait" /\ attempts[c] = 1 /\ okAt[c] # None =>
            now >= okAt[c] + rate_limit

\* the first attempt of a call goes out exactly rate_limit after the response
\* of the successful call before it
C5_Witness ==
    /\ pc["A"] = "wait" /\ attempts["A"] = 1 /\ okAt["A"] # None
    /\ rate_limit > 0 /\ now = okAt["A"] + rate_limit

\* C6: the map sent holds limit = 1000 when the caller gave no limit (or no
\* map), the caller's limit otherwise, and every other key as the caller
\* gave it.
C6_DefaultLimitMerged ==
    \A c \in Callers :
        pc[c] # "idle" =>
            /\ sent[c]["limit"] =
                   IF given[c] /\ orig[c]["limit"] # None
                   THEN orig[c]["limit"] ELSE 1000
            /\ \A k \in ParamKeys \ {"limit"} : sent[c][k] = orig[c][k]

\* a request went out for a caller that supplied its own limit and offset
C6_Witness ==
    /\ pc["A"] = "wait" /\ given["A"]
    /\ orig["A"]["limit"] = 30 /\ orig["A"]["offset"] = 30
    /\ sent["A"]["limit"] = 30

----------------------------------------------------------------------------
\* Properties of get_seasons

\* a call of method o has returned normally
ReturnedFrom(c, o) == pc[c] = "done" /\ op[c] = o /\ err[c] = "none"

SeasonsSource(c) == body[c].tree.MRData.SeasonTable.Seasons

\* C7 as stated: the list get_seasons returns is strictly ascending, so that
\* no year occurs in it twice.
C7_StrictlyAscending ==
    \A c \in Callers :
        ReturnedFrom(c, "get_seasons") =>
            LET v == result[c].value
            IN  \A i, j \in 1..Len(v) : i < j => v[i] < v[j]

\* C7, amended: the list get_seasons returns is in ascending order and is not
\* deduplicated: a year within the bounds occurs in it as many times as the
\* source season list holds it.
C7_AscendingWithRepeats ==
    \A c \in Callers :
        ReturnedFrom(c, "get_seasons") =>
            LET v == result[c].value
                src == SeasonsSource(c)
            IN  /\ \A i, j \in 1..Len(v) : i < j => v[i] <= v[j]
                /\ \A y \in args[c].start_year..args[c].end_year :
                       Cardinality({i \in 1..Len(v) : v[i] = y})
                         = Cardinality({j \in 1..Len(src) : int_of(src[j].season) = y})

\* a source list that holds a year twice, out of order with another one, and
\* the list returned for it
C7_Witness ==
    /\ ReturnedFrom("A", "get_seasons")
    /\ SeasonsSource("A") = <<[season |-> <<"6">>], [season |-> <<"5">>], [season |-> <<"6">>]>>
    /\ result["A"].value = <<5, 6, 6>>

\* C8: get_seasons returns y exactly when the source list holds a season whose
\* number is y and start_year <= y <= end_year; both bounds are included, and
\* nothing is returned when start_year > end_year.
C8_InclusiveBounds ==
    \A c \in Callers :
        ReturnedFrom(c, "get_seasons") =>
            LET v == result[c].value
                src == SeasonsSource(c)
                lo == args[c].start_year
                hi == args[c].end_year
                held == {int_of(src[j].season) : j \in 1..Len(src)}
                got == {v[i] : i \in 1..Len(v)}
            IN  /\ got = {y \in held : lo <= y /\ y <= hi}
                /\ lo \in held /\ lo <= hi => lo \in got
                /\ hi \in held /\ lo <= hi => hi \in got
                /\ lo > hi => v = <<>>
                /\ args[c].end_given # None => hi = args[c].end_given

\* seasons 5 and 6 in the source, get_seasons(6, 6): the season equal to both
\* bounds is returned, the other is not
C8_Witness ==
    /\ ReturnedFrom("A", "get_seasons")
    /\ args["A"].start_year = 6 /\ args["A"].end_given = 6
    /\ SeasonsSource("A") = <<[season |-> <<"5">>], [season |-> <<"6">>]>>
    /\ result["A"].value = <<6>>

----------------------------------------------------------------------------
\* Properties of get_races

RacesSource(c) == body[c].tree.MRData.RaceTable.Races

\* C9: in every record of the table get_races returns, race_id is the text
\* "{season}_{round}" of the integers held in the record's season and round.
C9_RaceIdOfRecord ==
    \A c \in Callers :
        ReturnedFrom(c, "get_races") =>
            LET t == result[c].value
            IN  \A i \in 1..Len(t) :
                    t[i].race_id = str_of(t[i].season) \o <<"_">> \o str_of(t[i].round)

\* C10 as stated: no two records of the table get_races returns carry the
\* same race_id.
C10_RaceIdUnique ==
    \A c \in Callers :
        ReturnedFrom(c, "get_races") =>
            LET t == result[c].value
            IN  \A i, j \in 1..Len(t) : i # j => t[i].race_id # t[j].race_id

\* C10, amended: two records of the table get_races returns carry the same
\* race_id only if they have the same (season, round) pair, and only if the
\* source items they come from have the same season and round strings: the
\* race_id is unique whenever the source list names no race twice.
C10_SameIdSameRace ==
    \A c \in Callers :
        ReturnedFrom(c, "get_races") =>
            LET t == result[c].value
                src == RacesSource(c)
            IN  /\ Len(t) = Len(src)
                /\ \A i, j \in 1..Len(t) :
                       t[i].race_id = t[j].race_id =>
                           /\ t[i].season = t[j].season
                           /\ t[i].round = t[j].round
                           /\ src[i].season = src[j].season
                           /\ src[i].round = src[j].round

\* two races of one season with different rounds, and their two race_ids
C10_Witness ==
    /\ ReturnedFrom("A", "get_races")
    /\ Len(result["A"].value) = 2
    /\ result["A"].value[1].season = result["A"].value[2].season
    /\ result["A"].value[1].round # result["A"].value[2].round
    /\ result["A"].value[1].race_id # result["A"].value[2].race_id

----------------------------------------------------------------------------
\* Properties of get_results

\* the number of records that the races before race b account for
RECURSIVE Offset(_, _)
Offset(races_data, b) ==
    IF b <= 1 THEN 0
    ELSE Offset(races_data, b - 1) + Len(races_data[b - 1].Results)

\* the record made of result j of race b
RecordOf(c, b, j) == result[c].value[Offset(RacesSource(c), b) + j]

\* the results of a response: every (race, result) position
ResultPlaces(c) ==
    {<<b, j>> \in (1..Len(RacesSource(c))) \X (1..MaxItems) :
        j <= Len(RacesSource(c)[b].Results)}

\* does the response hold a number that int() or float() refuses, in a field
\* other than position and grid?
OtherBadNumber(c) ==
    \E b \in 1..Len(RacesSource(c)) :
        LET race == RacesSource(c)[b]
        IN  \/ ~int_parses(race.season)
            \/ ~int_parses(race.round)
            \/ \E j \in 1..Len(race.Results) :
                   \/ ~int_parses(race.Results[j].laps)
                   \/ ~float_parses(race.Results[j].points)

\* C11: in the table get_results returns, position and grid are None when the
\* source string is not made of digits only ("R", "", "-1") and the integer
\* the string denotes when it is; such a string never gives 0 and is never
\* what makes the call raise.
C11_DigitOnlyCoercion ==
    \A c \in Callers :
        /\ ReturnedFrom(c, "get_results") =>
               \A pl \in ResultPlaces(c) :
                   LET src == RacesSource(c)[pl[1]].Results[pl[2]]
                       rec == RecordOf(c, pl[1], pl[2])
                   IN  /\ IsDigits(src.position) => rec.position = DigitsVal(src.position)
                       /\ ~IsDigits(src.position) => rec.position = None
                       /\ IsDigits(src.grid) => rec.grid = DigitsVal(src.grid)
                       /\ ~IsDigits(src.grid) => rec.grid = None
        /\ pc[c] = "done" /\ op[c] = "get_results" /\ err[c] = "ValueError" =>
               OtherBadNumber(c)

C11_Witness ==
    /\ ReturnedFrom("A", "get_results")
    /\ RacesSource("A") = <<ResultsBlock(RaceHeadX, <<ResultRetired, ResultSigned>>)>>
    /\ result["A"].value[1].position = None
    /\ result["A"].value[1].grid = None
    /\ result["A"].value[2].position = None
    /\ result["A"].value[2].grid = 0

----------------------------------------------------------------------------
\* Properties of the integer fields other than position and grid of a result

\* C12: in every extractor, a string that is not made of digits only leaves
\* its integer field absent and does not make the call fail; here for the
\* position of a qualifying result and the season and round of its race: a
\* call of get_qualifying that received a complete document never ends in
\* ValueError.
C12_NonDigitNeverFails ==
    \A c \in Callers :
        pc[c] = "done" /\ op[c] = "get_qualifying" => err[c] # "ValueError"

----------------------------------------------------------------------------
\* Properties of the flattening of get_results

\* C13: for a response with N races holding R1..RN results, the table of
\* get_results has R1+...+RN records, race after race and within a race in
\* the order of its Results list, and each record carries the season, the
\* round and the name of the race its result is listed under.
C13_OneRecordPerResult ==
    \A c \in Callers :
        ReturnedFrom(c, "get_results") =>
            /\ Len(result[c].value) =
                   Offset(RacesSource(c), Len(RacesSource(c)) + 1)
            /\ \A pl \in ResultPlaces(c) :
                   LET race == RacesSource(c)[pl[1]]
                       rec == RecordOf(c, pl[1], pl[2])
                   IN  /\ rec.driver_id = race.Results[pl[2]].Driver.driverId
                       /\ rec.season = int_of(race.season)
                       /\ rec.round = int_of(race.round)
                       /\ rec.race_name = race.raceName

C13_Witness ==
    /\ ReturnedFrom("A", "get_results")
    /\ RacesSource("A") =
           <<ResultsBlock(RaceHeadX, <<ResultBase, ResultRetired>>),
             ResultsBlock(RaceHeadY, <<ResultRetired, ResultBase>>)>>
    /\ Len(result["A"].value) = 4
    /\ result["A"].value[2].driver_id = "b"
    /\ result["A"].value[2].race_name = "X"
    /\ result["A"].value[3].driver_id = "b"
    /\ result["A"].value[3].race_name = "Y"
    /\ result["A"].value[3].round = 2

----------------------------------------------------------------------------
\* Properties of a response with a part missing

ResultsBlockKeys == {"season", "round", "raceName", "Results"}
ResultKeys == {"position", "Driver", "grid", "laps", "points"}

\* the document lacks MRData, RaceTable or Races
NoRacesList(t) ==
    \/ ~Has(t, "MRData")
    \/ ~Has(t.MRData, "RaceTable")
    \/ ~Has(t.MRData.RaceTable, "Races")

\* a race lacks a mandatory field or its Results, or a result lacks a
\* mandatory field
NoMandatoryField(t) ==
    \E b \in 1..Len(t.MRData.RaceTable.Races) :
        LET race == t.MRData.RaceTable.Races[b]
        IN  \/ ~(ResultsBlockKeys \subseteq DOMAIN race)
            \/ \E j \in 1..Len(race.Results) :
                   ~(ResultKeys \subseteq DOMAIN race.Results[j])

----------------------------------------------------------------------------
\* Properties of the optional fields

DriversSource(c) == body[c].tree.MRData.DriverTable.Drivers

\* C15: an optional field is in the output record exactly when it is in the
\* source item; here for get_drivers: url with the item's url, date_of_birth
\* with the item's dateOfBirth, and no url field for a driver without url.
C15_OptionalIffPresent ==
    \A c \in Callers :
        ReturnedFrom(c, "get_drivers") =>
            \A i \in 1..Len(DriversSource(c)) :
                /\ Has(result[c].value[i], "url") <=> Has(DriversSource(c)[i], "url")
                /\ Has(result[c].value[i], "date_of_birth") <=>
                       Has(DriversSource(c)[i], "dateOfBirth")

----------------------------------------------------------------------------
\* Properties of the values that are not taken from the source

\* C16: no missing value is turned into a default: whenever a record of
\* get_results holds fastest_lap_rank = 0, the FastestLap block of its result
\* holds a rank, and that rank is the number 0.
C16_NoInventedZero ==
    \A c \in Callers :
        ReturnedFrom(c, "get_results") =>
            \A pl \in ResultPlaces(c) :
                LET src == RacesSource(c)[pl[1]].Results[pl[2]]
                    rec == RecordOf(c, pl[1], pl[2])
                IN  (Has(rec, "fastest_lap_rank") /\ rec.fastest_lap_rank = 0) =>
                        /\ Has(src.FastestLap, "rank")
                        /\ int_of(src.FastestLap.rank) = 0

\* C17: in every record of get_results, points is a non-negative number,
\* whatever the points string of the source.
C17_PointsNonNegative ==
    \A c \in Callers :
        ReturnedFrom(c, "get_results") =>
            \A i \in 1..Len(result[c].value) : result[c].value[i].points >= 0

----------------------------------------------------------------------------
\* Properties of the endpoint

\* C18: the endpoint follows from which arguments are supplied: get_results
\* called with a round, 0 included, asks for "{season}/{round}/results", and
\* without a round for "{season}/results".
C18_EndpointByPresence ==
    \A c \in Callers :
        (op[c] = "get_results" /\ pc[c] # "idle") =>
            /\ args[c].round_num # None =>
                   args[c].endpoint = Path(args[c].season, args[c].round_num, "results")
            /\ args[c].round_num = None =>
                   args[c].endpoint = Path(args[c].season, None, "results")

----------------------------------------------------------------------------
\* Properties of the propagation of failures

FacadeMethods ==
    {"get_seasons", "get_races", "get_results", "get_qualifying",
     "get_drivers", "get_constructors"}

\* the exception raised beneath the facade method in the call that ended:
\* by the session, by raise_for_status, by response.json() or by the
\* extraction; "none" when nothing was raised
RaisedBeneath(c) ==
    IF last[c].kind = "error" THEN "ConnectionError"
    ELSE IF is_exhausted(total[c]) THEN "RetryError"
    ELSE IF raise_for_status(last[c].status) THEN "HTTPError"
    ELSE IF ~body[c].json THEN "JSONDecodeError"
    ELSE Extract(op[c], args[c], body[c].tree).raised

\* C19: a call of a facade method ends with exactly the error that the
\* request executor or the extraction raised: when one was raised the call
\* raises that one and returns nothing, and it has made no attempt beyond
\* those of the session's retry policy.
C19_FailurePropagates ==
    \A c \in Callers :
        (pc[c] = "done" /\ op[c] \in FacadeMethods) =>
            /\ err[c] = RaisedBeneath(c)
            /\ err[c] # "none" => result[c] = NoResult
            /\ attempts[c] = retried[c] + 1
            /\ attempts[c] <= RetryTotal + 1

C19_Witness ==
    /\ pc["A"] = "done"
    /\ op["A"] = "get_constructors"
    /\ last["A"].status = 404
    /\ err["A"] = "HTTPError"
    /\ result["A"] = NoResult
    /\ attempts["A"] = 1

----------------------------------------------------------------------------
\* Properties of the spacing of requests under concurrency

\* C20 as stated, for the caller that has the collector to itself: while the
\* other caller has never called, no request is issued less than rate_limit
\* after the request before it.
C20_OneCallerAlwaysSpaced ==
    \A c \in Callers :
        (\A d \in Callers \ {c} : pc[d] = "idle") => ~short[c]

\* C20, amended: with two callers on one collector, each caller's first
\* request of a call is issued at least rate_limit after the response that
\* its own previous call returned with, and a caller's request is less than
\* rate_limit after its previous one only when it is a retry; nothing spaces
\* the requests of one caller from those of the other.
C20_SpacedAfterOwnSuccess ==
    \A c \in Callers :
        /\ (pc[c] = "wait" /\ attempts[c] = 1 /\ okAt[c] # None) =>
               reqAt[c] >= okAt[c] + rate_limit
        /\ short[c] => attempts[c] >= 2 /\ retried[c] >= 1

\* both callers have a first request in flight, issued less than rate_limit
\* apart, the one of A after the full delay of A's previous call
C20_Witness ==
    /\ rate_limit > 0
    /\ pc["A"] = "wait" /\ attempts["A"] = 1 /\ okAt["A"] # None
    /\ pc["B"] = "wait" /\ attempts["B"] = 1
    /\ reqAt["A"] - reqAt["B"] < rate_limit
    /\ reqAt["B"] - reqAt["A"] < rate_limit

----------------------------------------------------------------------------
\* Properties of the tables made of one list

ConstructorsSource(c) == body[c].tree.MRData.ConstructorTable.Constructors

\* the number of records that the races before race b account for in the
\* table of get_qualifying
RECURSIVE QualOffset(_, _)
QualOffset(races_data, b) ==
    IF b <= 1 THEN 0
    ELSE QualOffset(races_data, b - 1) + Len(races_data[b - 1].QualifyingResults)

\* the innermost source list of the response to a call, as the sequence of
\* the keys that its records are made under
SourceKeys(c) ==
    CASE op[c] = "get_races" ->
            [i \in 1..Len(RacesSource(c)) |->
                <<int_of(RacesSource(c)[i].season), int_of(RacesSource(c)[i].round)>>]
      [] op[c] = "get_drivers" ->
            [i \in 1..Len(DriversSource(c)) |-> DriversSource(c)[i].driverId]
      [] op[c] = "get_constructors" ->
            [i \in 1..Len(ConstructorsSource(c)) |-> ConstructorsSource(c)[i].constructorId]
      [] OTHER -> <<>>

\* the same keys, read from the table returned
TableKeys(c) ==
    CASE op[c] = "get_races" ->
            [i \in 1..Len(result[c].value) |->
                <<result[c].value[i].season, result[c].value[i].round>>]
      [] op[c] = "get_drivers" ->
            [i \in 1..Len(result[c].value) |-> result[c].value[i].driver_id]
      [] op[c] = "get_constructors" ->
            [i \in 1..Len(result[c].value) |-> result[c].value[i].constructor_id]
      [] OTHER -> <<>>

\* the response is complete and its innermost lists are all empty
EmptySource(c) ==
    /\ body[c].json
    /\ Has(body[c].tree, "MRData")
    /\ CASE op[c] = "get_drivers" ->
               /\ Has(body[c].tree.MRData, "DriverTable")
               /\ Has(body[c].tree.MRData.DriverTable, "Drivers")
               /\ DriversSource(c) = <<>>
         [] op[c] = "get_constructors" ->
               /\ Has(body[c].tree.MRData, "ConstructorTable")
               /\ Has(body[c].tree.MRData.ConstructorTable, "Constructors")
               /\ ConstructorsSource(c) = <<>>
         [] OTHER ->
               /\ Has(body[c].tree.MRData, "RaceTable")
               /\ Has(body[c].tree.MRData.RaceTable, "Races")
               /\ RacesSource(c) = <<>>

\* C21: the table of get_races, get_drivers and get_constructors has one
\* record per item of the source list, in its order, an item listed twice
\* giving two records; the table of get_qualifying has one record per item
\* of the QualifyingResults lists, race after race; and a call whose source
\* list is empty returns an empty table and raises nothing.
C21_OneRecordPerItem ==
    \A c \in Callers :
        /\ (pc[c] = "done" /\ op[c] \in {"get_races", "get_drivers", "get_constructors"}
               /\ err[c] = "none") =>
               TableKeys(c) = SourceKeys(c)
        /\ ReturnedFrom(c, "get_qualifying") =>
               /\ Len(result[c].value) =
                      QualOffset(RacesSource(c), Len(RacesSource(c)) + 1)
               /\ \A b \in 1..Len(RacesSource(c)) :
                      \A j \in 1..Len(RacesSource(c)[b].QualifyingResults) :
                          LET rec == result[c].value[QualOffset(RacesSource(c), b) + j]
                              src == RacesSource(c)[b].QualifyingResults[j]
                          IN  /\ rec.driver_id = src.Driver.driverId
                              /\ rec.position = int_of(src.position)
                              /\ rec.race_name = RacesSource(c)[b].raceName
        /\ (pc[c] = "done"
               /\ op[c] \in {"get_races", "get_qualifying", "get_drivers", "get_constructors"}
               /\ EmptySource(c)) =>
               err[c] = "none" /\ result[c] = [kind |-> "table", value |-> <<>>]

\* a driver listed twice gives two equal records
C21_Witness ==
    /\ ReturnedFrom("A", "get_drivers")
    /\ DriversSource("A") = <<DriverFull, DriverFull>>
    /\ Len(result["A"].value) = 2
    /\ result["A"].value[1] = result["A"].value[2]
    /\ result["A"].value[1].driver_id = "a"

----------------------------------------------------------------------------
\* Properties of the records made from one race_info

\* the keys of a record that come from race_info
ContextKeys == {"season", "round", "race_name"}

\* the keys that the record of a result holds besides them
ResultRecordKeys(src) ==
    {"position", "driver_id", "driver_name", "grid", "laps", "points"}
    \cup (IF Has(src, "Time") /\ Has(src.Time, "time") THEN {"race_time"} ELSE {})
    \cup (IF Has(src, "FastestLap") THEN {"fastest_lap_rank"} ELSE {})
    \cup (IF Has(src, "FastestLap") /\ Has(src.FastestLap, "Time")
          THEN {"fastest_lap_time"} ELSE {})

\* the keys that the record of a qualifying result holds besides them
QualRecordKeys(src) ==
    {"position", "driver_id", "driver_name"}
    \cup (IF Has(src, "Q1") THEN {"q1_time"} ELSE {})
    \cup (IF Has(src, "Q2") THEN {"q2_time"} ELSE {})
    \cup (IF Has(src, "Q3") THEN {"q3_time"} ELSE {})

\* C22: the records of the drivers of one race are copies of their own: the
\* record of a driver holds the race context and the fields of that driver's
\* own item and no field of another driver's (race_time, fastest_lap_rank,
\* fastest_lap_time, q1/q2/q3_time, position), and race_info is after the
\* loop what it was before it.
C22_IndependentCopies ==
    \A c \in Callers :
        /\ ReturnedFrom(c, "get_results") =>
               /\ \A pl \in ResultPlaces(c) :
                      LET src == RacesSource(c)[pl[1]].Results[pl[2]]
                          rec == RecordOf(c, pl[1], pl[2])
                      IN  /\ DOMAIN rec = ContextKeys \cup ResultRecordKeys(src)
                          /\ rec.driver_id = src.Driver.driverId
                          /\ rec.position =
                                 IF IsDigits(src.position) THEN DigitsVal(src.position)
                                 ELSE None
                          /\ Has(rec, "race_time") => rec.race_time = src.Time.time
                          /\ Has(rec, "fastest_lap_time") =>
                                 rec.fastest_lap_time = src.FastestLap.Time.time
               /\ \A b \in 1..Len(RacesSource(c)) :
                      LET race == RacesSource(c)[b]
                      IN  ResultsLoop(0 :> block_info(race), <<>>, race.Results).heap[0]
                              = block_info(race)
        /\ ReturnedFrom(c, "get_qualifying") =>
               /\ \A b \in 1..Len(RacesSource(c)) :
                      \A j \in 1..Len(RacesSource(c)[b].QualifyingResults) :
                          LET rec == result[c].value[QualOffset(RacesSource(c), b) + j]
                              src == RacesSource(c)[b].QualifyingResults[j]
                          IN  /\ DOMAIN rec = ContextKeys \cup QualRecordKeys(src)
                              /\ rec.driver_id = src.Driver.driverId
                              /\ rec.position = int_of(src.position)
                              /\ Has(rec, "q1_time") => rec.q1_time = src.Q1
               /\ \A b \in 1..Len(RacesSource(c)) :
                      LET race == RacesSource(c)[b]
                      IN  QualifyingLoop(0 :> block_info(race), <<>>,
                                         race.QualifyingResults).heap[0]
                              = block_info(race)

\* a driver with a race time, listed before a driver without one
C22_Witness ==
    /\ ReturnedFrom("A", "get_results")
    /\ RacesSource("A") = <<ResultsBlock(RaceHeadX, <<ResultRetired, ResultBase>>)>>
    /\ Has(result["A"].value[1], "race_time")
    /\ ~Has(result["A"].value[2], "race_time")
    /\ result["A"].value[1].position = None
    /\ result["A"].value[2].position = 1

----------------------------------------------------------------------------
\* Properties of a response with a malformed item

TableMethods ==
    {"get_races", "get_results", "get_qualifying", "get_drivers", "get_constructors"}

\* the number of items of the innermost lists of the response to a call
ItemCount(c) ==
    CASE op[c] = "get_races" -> Len(RacesSource(c))
      [] op[c] = "get_results" -> Offset(RacesSource(c), Len(RacesSource(c)) + 1)
      [] op[c] = "get_qualifying" -> QualOffset(RacesSource(c), Len(RacesSource(c)) + 1)
      [] op[c] = "get_drivers" -> Len(DriversSource(c))
      [] OTHER -> Len(ConstructorsSource(c))

\* the response has its Races list, and item k > 1 of a list is malformed:
\* it lacks a mandatory field or holds a mandatory number that is none
LaterItemMalformed(c) ==
    /\ body[c].json
    /\ ~NoRacesList(body[c].tree)
    /\ CASE op[c] = "get_races" ->
               \E k \in 2..Len(RacesSource(c)) :
                   LET race == RacesSource(c)[k]
                   IN  \/ ~({"season", "round"} \subseteq DOMAIN race)
                       \/ ~int_parses(race.season)
                       \/ ~int_parses(race.round)
         [] op[c] = "get_results" ->
               \E b \in 1..Len(RacesSource(c)) :
                   /\ ResultsBlockKeys \subseteq DOMAIN RacesSource(c)[b]
                   /\ \E k \in 2..Len(RacesSource(c)[b].Results) :
                          LET res == RacesSource(c)[b].Results[k]
                          IN  \/ ~(ResultKeys \subseteq DOMAIN res)
                              \/ ~int_parses(res.laps)
                              \/ ~float_parses(res.points)
         [] op[c] = "get_qualifying" ->
               \E b \in 1..Len(RacesSource(c)) :
                   /\ Has(RacesSource(c)[b], "QualifyingResults")
                   /\ \E k \in 2..Len(RacesSource(c)[b].QualifyingResults) :
                          LET qual == RacesSource(c)[b].QualifyingResults[k]
                          IN  \/ ~Has(qual, "position")
                              \/ ~int_parses(qual.position)
         [] OTHER -> FALSE

\* C23: extraction is all or nothing.  A call that raised returned nothing;
\* a call that returned a table returned one record for every item of the
\* response; and when an item after the first of a list is malformed, the
\* call raises and the records of the items before it are not returned.
C23_AllOrNothing ==
    \A c \in Callers :
        (pc[c] = "done" /\ op[c] \in TableMethods) =>
            /\ err[c] # "none" => result[c] = NoResult
            /\ err[c] = "none" =>
                   result[c].kind = "table" /\ Len(result[c].value) = ItemCount(c)
            /\ LaterItemMalformed(c) =>
                   err[c] \in {"KeyError", "ValueError"} /\ result[c] = NoResult

\* a result without laps, listed after a well-formed one
C23_Witness ==
    /\ pc["A"] = "done"
    /\ op["A"] = "get_results"
    /\ body["A"].json
    /\ body["A"].tree =
           RacesTree(<<ResultsBlock(RaceHeadX, <<ResultBase, ResultNoLaps>>)>>)
    /\ err["A"] = "KeyError"
    /\ result["A"] = NoResult

----------------------------------------------------------------------------
\* Properties of the number of requests of a facade call

\* C24: a facade call makes one call of _make_request and builds its result
\* from the one response that passed: every attempt but the first answers a
\* response that the retry policy took, at most one response passes, and the
\* value returned is the extraction of that response, whatever total and
\* limit the response reports.
C24_OneRequestPerCall ==
    \A c \in Callers :
        op[c] \in FacadeMethods =>
            /\ attempts[c] <= retried[c] + 1
            /\ sleeps[c] <= 1
            /\ (pc[c] = "done" /\ err[c] = "none") =>
                   /\ sleeps[c] = 1
                   /\ attempts[c] = retried[c] + 1
                   /\ result[c].value = Extract(op[c], args[c], body[c].tree).value

\* the response is a page of 1 driver out of 30: the table has 1 record and
\* no second request was made
C24_Witness ==
    /\ ReturnedFrom("A", "get_drivers")
    /\ body["A"].tree = Paged(DriversTree(<<DriverFull>>))
    /\ Len(result["A"].value) = 1
    /\ attempts["A"] = 1
    /\ sleeps["A"] = 1
    /\ sent["A"]["limit"] = DefaultLimit

----------------------------------------------------------------------------
\* Properties of the caller's params map

\* C25: the map a caller passed to _make_request is, during and after the
\* call, what it was when the call began.
C25_ParamsUnchanged ==
    \A c \in Callers :
        (pc[c] # "idle" /\ given[c]) => params[c] = orig[c]

====
